---- MODULE Spec2Model ----
(***************************************************************************)
(* The two batched screeners of Project_Stock:                             *)
(*   screen_hk_stocks_batched  (main.py)   prog = "batched"                *)
(*   run_hk_scan               (test.py)   prog = "scan"                   *)
(* Each partitions a ticker list into chunks, downloads one frame of price *)
(* bars per chunk, filters every ticker of the chunk, asks the             *)
(* fundamentals provider about the tickers that passed, and appends one    *)
(* record per match.  A KeyboardInterrupt may arrive at any step.          *)
(*                                                                         *)
(* Indices are 1-based here (chunk_index = 1 is Python's chunk_index = 0). *)
(* The market-data provider is the environment: every download and every   *)
(* fundamentals lookup draws its answer from a small set.  The             *)
(* fundamentals provider answers one symbol the same way throughout a run  *)
(* (pe remembers the answer once it has been given).                       *)
(***************************************************************************)
EXTENDS Integers, Sequences, FiniteSets, TLC

\* ---------------------------------------------------------------- bounds
MaxTickers == 3
MaxBatch == 2
FilterTickers == 2
Symbols == {"A", "B"}

\* ------------------------------------------------------ program constants
max_retries == 2
MinBars == 5
MaxPriceFloor == 10
ChangeLow == 15
ChangeHigh == 25
PELow == 15
PEHigh == 50
pe_min == 15
pe_max == 50
ThresholdPct == 15
RetryCeiling == 2

\* ------------------------------------------------------------ price data
\* One ticker's window after dropna(): the number of valid bars, first and
\* last close, highest High, lowest Low.  wellformed = FALSE is a frame on
\* which the metric computation raises (a missing column, say).
WShort == [bars |-> 4, first |-> 100, last |-> 115, high |-> 120, low |-> 90, wellformed |-> TRUE]
WPass == [bars |-> 5, first |-> 100, last |-> 115, high |-> 120, low |-> 90, wellformed |-> TRUE]
WFlat == [bars |-> 5, first |-> 100, last |-> 100, high |-> 120, low |-> 90, wellformed |-> TRUE]
WBad == [bars |-> 5, first |-> 100, last |-> 115, high |-> 120, low |-> 90, wellformed |-> FALSE]
FetchWindows == {WShort, WPass, WFlat, WBad}

Abs(x) == IF x < 0 THEN -x ELSE x
Min2(a, b) == IF a < b THEN a ELSE b

\* Windows of 5 valid bars around every threshold of the primary filter:
\* falls and rises of 14, 15, 25 and 26 percent, no change, a highest High
\* of exactly 10, a first close other than 100, and a first close of 0 (the
\* division gives inf or nan, which fails every comparison).
Bar(f, l, h) ==
    [bars |-> 5, first |-> f, last |-> l, high |-> h, low |-> Min2(f, l), wellformed |-> TRUE]
FilterWindows ==
    {Bar(100, l, 130) : l \in {74, 75, 85, 86, 100, 114, 115, 125, 126}}
    \cup {Bar(100, 115, h) : h \in {10, 11}}
    \cup {Bar(40, l, 60) : l \in {34, 45, 46, 50, 51}}
    \cup {Bar(0, 5, 20)}

SymsOf(chunk) == {chunk[i] : i \in 1..Len(chunk)}

\* What yf.download may return for a chunk: a frame keyed by the symbols it
\* has columns for.  The frame with no columns is data.empty.  For a chunk
\* of one ticker the frame is that ticker's own (flat) frame.
Frames(chunk) ==
    IF Len(chunk) = 1
    THEN [SymsOf(chunk) -> FetchWindows] \cup {<<>>}
    ELSE UNION {[cols -> FetchWindows] : cols \in SUBSET SymsOf(chunk)}

\* the same, with the windows of FilterWindows
FilterFrames(chunk) ==
    UNION {[cols -> FilterWindows] : cols \in SUBSET SymsOf(chunk)}

IsEmpty(d) == DOMAIN d = {}

\* ---------------------------------------------------- fundamentals data
\* What yf.Ticker(symbol) answers: the lookup raises, or info has no
\* trailingPE, or it has one; options is the number of listed option
\* expiries (read by run_hk_scan only).
Unknown == [kind |-> "unknown", pe |-> 0, options |-> 0]
PEValues == {0, 14, 15, 50, 51}
Answers(p) ==
    {[kind |-> k, pe |-> 0, options |-> 1] : k \in {"raise", "none"}}
    \cup {[kind |-> "value", pe |-> v, options |-> 1] : v \in PEValues}
    \cup (IF p = "scan" THEN {[kind |-> "value", pe |-> 15, options |-> 0]} ELSE {})

\* ------------------------------------------------------------- chunking
SliceShort(t, i, b) == SubSeq(t, i + 1, Min2(i + b - 1, Len(t)))

\* tickers[i:i + batch_size], i a 0-based offset
Slice(t, i, b) == SubSeq(t, i + 1, Min2(i + b, Len(t)))

\* range(0, len(tickers), batch_size)
RangeStarts(n, b) == {i \in 0..(n - 1) : i % b = 0}

\* chunks = [tickers[i:i + batch_size] for i in range(0, len(tickers), batch_size)]
Chunks(t, b) ==
    [k \in 1..Cardinality(RangeStarts(Len(t), b)) |-> Slice(t, (k - 1) * b, b)]

\* ---------------------------------------------------- per-ticker logic
\* main.py 102-107 / test.py 105-109: a chunk of one ticker takes the whole
\* frame; otherwise the symbol must be among the frame's top-level columns.
HasWindow(chunk, d, symbol) == Len(chunk) = 1 \/ symbol \in DOMAIN d

InsufficientBarsOffByOne(w) == w.bars < MinBars - 1

\* main.py 109: stock_data.empty or len(stock_data) < 5; test.py 111
InsufficientBars(w) == w.bars < MinBars

\* lo <= |(last - first) / first * 100| <= hi, without the division
ChangeAtLeast(w, lo) == w.first > 0 /\ lo * w.first <= Abs(w.last - w.first) * 100
ChangeAtMost(w, hi) == w.first > 0 /\ Abs(w.last - w.first) * 100 <= hi * w.first

PrimaryFilterNoAbs(w) ==
    /\ w.high > MaxPriceFloor
    /\ w.first > 0
    /\ ChangeLow * w.first <= (w.last - w.first) * 100
    /\ (w.last - w.first) * 100 <= ChangeHigh * w.first

\* main.py 123: max_price > 10 and 15 <= abs(pct_change) <= 25
PrimaryFilter(w) ==
    /\ w.high > MaxPriceFloor
    /\ ChangeAtLeast(w, ChangeLow)
    /\ ChangeAtMost(w, ChangeHigh)

\* test.py 118-121: abs((curr - start) / start) >= price_change_threshold
ScanFilter(w) == ChangeAtLeast(w, ThresholdPct)

\* The body of the per-ticker try up to the filter, in the code's order.
TickerOutcome(p, chunk, d, symbol) ==
    IF ~HasWindow(chunk, d, symbol) THEN "absent"
    ELSE IF InsufficientBars(d[symbol]) THEN "short"
    ELSE IF ~d[symbol].wellformed THEN "raise"
    ELSE IF (IF p = "batched" THEN PrimaryFilter(d[symbol]) ELSE ScanFilter(d[symbol]))
         THEN "match"
         ELSE "nomatch"

AfterTickerNoCatch(outcome) ==
    IF outcome = "match" THEN "fund"
    ELSE IF outcome = "raise" THEN "raised"
    ELSE "ticker"

\* Where control goes after the per-ticker body: into check_fundamentals on
\* a match; every other outcome, the caught exception included (main.py
\* 159-160, test.py 138-139), continues with the next ticker.
AfterTicker(outcome) == IF outcome = "match" THEN "fund" ELSE "ticker"

check_fundamentals_wide(ans) ==
    IF ans.kind = "value" /\ ans.pe # 0 /\ PELow <= ans.pe /\ ans.pe <= PEHigh + 1
    THEN [valid |-> TRUE, pe |-> ans.pe]
    ELSE [valid |-> FALSE, pe |-> 0]

\* main.py 45-69: (valid, pe_val)
check_fundamentals(ans) ==
    IF ans.kind = "value" /\ ans.pe # 0 /\ PELow <= ans.pe /\ ans.pe <= PEHigh
    THEN [valid |-> TRUE, pe |-> ans.pe]
    ELSE [valid |-> FALSE, pe |-> 0]

\* test.py 36-57
scan_check_fundamentals(ans, lo, hi) ==
    IF ans.kind = "raise" \/ ans.options = 0 THEN [valid |-> FALSE, pe |-> 0]
    ELSE IF ans.kind = "value" /\ lo <= ans.pe /\ ans.pe <= hi
         THEN [valid |-> TRUE, pe |-> ans.pe]
         ELSE [valid |-> FALSE, pe |-> 0]

\* main.py 138-146 (the percentage and the monthly columns are left out:
\* no property reads them); test.py 128-134
MatchRecord(p, symbol, w, peval) ==
    IF p = "batched"
    THEN [Ticker |-> symbol, CurrentPrice |-> w.last, MaxPrice |-> w.high,
          MinPrice |-> w.low, PE |-> peval]
    ELSE [Ticker |-> symbol, CurrentPrice |-> w.last, PE |-> peval]

ShouldRetryInclusive(s, r) == ~s /\ r <= max_retries
ShouldRetryOnce(s, r) == ~s /\ r < max_retries - 1
ShouldRetryIgnoringSuccess(s, r) == r < max_retries

\* main.py 87: while not success and retries < max_retries
ShouldRetry(s, r) == ~s /\ r < max_retries

\* main.py 172, test.py 146: if chunk_index < len(chunks) - 1
NeedsCooldown(i, n) == i < n

\* ---------------------------------------------------------------- state
VARIABLES
    prog,          \* which screener runs
    tickers,       \* the input list
    batch_size,
    chunks,
    results,
    chunk_index,
    success,
    retries,
    data,          \* the frame of the last download that returned
    pos,           \* position of symbol in the chunk
    pc,            \* where control is
    cancelled,     \* the KeyboardInterrupt handler ran
    pe,            \* the fundamentals provider's answer per symbol, once given
    \* history
    origin,        \* per record, the input position of its ticker
    prefix,        \* results when the current chunk started
    calls,         \* downloads made for the current chunk
    fetches,       \* downloads made in the whole run
    abandoned,     \* chunks that ended without a non-empty frame
    cooled,        \* chunks followed by the inter-batch sleep
    visited,       \* input positions whose per-ticker body started
    fundCalls,     \* input positions check_fundamentals was called for
    signalled,     \* a KeyboardInterrupt has been delivered
    sigBoundary,   \* first chunk not fully processed at the first signal
    sigResults,    \* results at the first signal
    workAfterSig   \* a download, a ticker or a lookup started after a signal

inputs == <<prog, tickers, batch_size, chunks>>
signal == <<signalled, sigBoundary, sigResults>>
vars == <<prog, tickers, batch_size, chunks, results, chunk_index, success,
          retries, data, pos, pc, cancelled, pe, origin, prefix, calls,
          fetches, abandoned, cooled, visited, fundCalls, signalled, sigBoundary,
          sigResults, workAfterSig>>

ticker_chunk == chunks[chunk_index]
InLoop == chunk_index <= Len(chunks)
\* the input position of the ticker at position p of chunk c
Idx(c, p) == (c - 1) * batch_size + p
ChunkOf(i) == ((i - 1) \div batch_size) + 1

TickerLists == UNION {[1..n -> Symbols] : n \in 1..MaxTickers}

Init ==
    /\ prog \in {"batched", "scan"}
    /\ tickers \in TickerLists
    /\ batch_size \in 1..MaxBatch
    /\ chunks = Chunks(tickers, batch_size)
    /\ results = <<>>
    /\ chunk_index = 1
    /\ success = FALSE
    /\ retries = 0
    /\ data = <<>>
    /\ pos = 1
    /\ pc = "loop"
    /\ cancelled = FALSE
    /\ pe = [s \in Symbols |-> Unknown]
    /\ origin = <<>>
    /\ prefix = <<>>
    /\ calls = 0
    /\ fetches = 0
    /\ abandoned = {}
    /\ cooled = {}
    /\ visited = {}
    /\ fundCalls = <<>>
    /\ signalled = FALSE
    /\ sigBoundary = 0
    /\ sigResults = <<>>
    /\ workAfterSig = FALSE

\* Has the chunk at chunk_index finished its processing (only the cooldown
\* or the loop's next step is left)?
ProcessingComplete ==
    \/ pc \in {"sleepBatch", "errSleep"}
    \/ pc = "while" /\ ~ShouldRetry(success, retries)
    \/ pc = "ticker" /\ pos > Len(ticker_chunk)

Boundary == IF ProcessingComplete THEN chunk_index + 1 ELSE chunk_index

\* history kept by every step that starts provider or ticker work
Work == workAfterSig' = (workAfterSig \/ signalled)

\* after a chunk: main.py 171-173, test.py 145-147
NextChunk ==
    IF NeedsCooldown(chunk_index, Len(chunks))
    THEN pc' = "sleepBatch" /\ UNCHANGED chunk_index
    ELSE pc' = "loop" /\ chunk_index' = chunk_index + 1

\* ------------------------------------------- screen_hk_stocks_batched
\* main.py 80-85
StartChunk ==
    /\ prog = "batched" /\ pc = "loop" /\ InLoop
    /\ success' = FALSE
    /\ retries' = 0
    /\ pc' = "while"
    /\ prefix' = results
    /\ calls' = 0
    /\ UNCHANGED <<inputs, fetches, results, chunk_index, data, pos, cancelled, pe,
                   origin, abandoned, cooled, visited, fundCalls, signal,
                   workAfterSig>>

\* main.py 178 / test.py 152: the loop is exhausted
Return ==
    /\ pc = "loop" /\ ~InLoop
    /\ pc' = "done"
    /\ UNCHANGED <<inputs, fetches, results, chunk_index, success, retries, data, pos,
                   cancelled, pe, origin, prefix, calls, abandoned, cooled,
                   visited, fundCalls, signal, workAfterSig>>

\* main.py 87-99, 161-169: one attempt.  The provider raises, or returns a
\* frame; an empty frame and an exception both count a retry and sleep.
DownloadFrom(frames) ==
    /\ prog = "batched" /\ pc = "while" /\ ShouldRetry(success, retries)
    /\ calls' = calls + 1
    /\ fetches' = fetches + 1
    /\ Work
    /\ \/ /\ retries' = retries + 1
          /\ pc' = "sleepRetry"
          /\ UNCHANGED <<data, success, pos>>
       \/ \E d \in frames :
             /\ data' = d
             /\ IF IsEmpty(d)
                THEN /\ retries' = retries + 1
                     /\ pc' = "sleepRetry"
                     /\ UNCHANGED <<success, pos>>
                ELSE /\ success' = TRUE
                     /\ pos' = 1
                     /\ pc' = "ticker"
                     /\ UNCHANGED retries
    /\ UNCHANGED <<inputs, results, chunk_index, cancelled, pe, origin, prefix,
                   abandoned, cooled, visited, fundCalls, signal>>

Download == DownloadFrom(Frames(ticker_chunk))

\* main.py 164, 169: time.sleep(5), then back to the while test
RetrySleep ==
    /\ prog = "batched" /\ pc = "sleepRetry"
    /\ pc' = "while"
    /\ UNCHANGED <<inputs, fetches, results, chunk_index, success, retries, data, pos,
                   cancelled, pe, origin, prefix, calls, abandoned, cooled,
                   visited, fundCalls, signal, workAfterSig>>

\* main.py 87, 171-173: the while test fails; on to the cooldown test
EndWhile ==
    /\ prog = "batched" /\ pc = "while" /\ ~ShouldRetry(success, retries)
    /\ abandoned' = IF success THEN abandoned ELSE abandoned \cup {chunk_index}
    /\ NextChunk
    /\ UNCHANGED <<inputs, fetches, results, success, retries, data, pos, cancelled, pe,
                   origin, prefix, calls, cooled, visited, fundCalls, signal,
                   workAfterSig>>

\* main.py 173 / test.py 147: the inter-batch sleep
BatchSleep ==
    /\ pc = "sleepBatch"
    /\ cooled' = cooled \cup {chunk_index}
    /\ chunk_index' = chunk_index + 1
    /\ pc' = "loop"
    /\ UNCHANGED <<inputs, fetches, results, success, retries, data, pos, cancelled, pe,
                   origin, prefix, calls, abandoned, visited, fundCalls, signal,
                   workAfterSig>>

\* main.py 100-125 / test.py 102-122: one ticker, up to the filter
ProcessTicker ==
    /\ pc = "ticker" /\ pos <= Len(ticker_chunk)
    /\ Work
    /\ visited' = visited \cup {Idx(chunk_index, pos)}
    /\ LET next == AfterTicker(TickerOutcome(prog, ticker_chunk, data, ticker_chunk[pos]))
       IN  /\ pc' = next
           /\ pos' = IF next = "ticker" THEN pos + 1 ELSE pos
    /\ UNCHANGED <<inputs, fetches, results, chunk_index, success, retries, data,
                   cancelled, pe, origin, prefix, calls, abandoned, cooled,
                   fundCalls, signal>>

\* main.py 100: the for loop over the chunk is exhausted
EndTickers ==
    /\ prog = "batched" /\ pc = "ticker" /\ pos > Len(ticker_chunk)
    /\ pc' = "while"
    /\ UNCHANGED <<inputs, fetches, results, chunk_index, success, retries, data, pos,
                   cancelled, pe, origin, prefix, calls, abandoned, cooled,
                   visited, fundCalls, signal, workAfterSig>>

\* the provider's answer for a symbol: free the first time, then the same
AnswersFor(symbol) == IF pe[symbol] = Unknown THEN Answers(prog) ELSE {pe[symbol]}

\* main.py 125-158: the lookup, and the record when it passes
Fundamentals ==
    /\ prog = "batched" /\ pc = "fund"
    /\ Work
    /\ fundCalls' = Append(fundCalls, Idx(chunk_index, pos))
    /\ \E ans \in AnswersFor(ticker_chunk[pos]) :
          LET r == check_fundamentals(ans) IN
          /\ pe' = [pe EXCEPT ![ticker_chunk[pos]] = ans]
          /\ IF r.valid
             THEN /\ results' = Append(results,
                        MatchRecord(prog, ticker_chunk[pos], data[ticker_chunk[pos]], r.pe))
                  /\ origin' = Append(origin, Idx(chunk_index, pos))
             ELSE UNCHANGED <<results, origin>>
    /\ pos' = pos + 1
    /\ pc' = "ticker"
    /\ UNCHANGED <<inputs, fetches, chunk_index, success, retries, data, cancelled,
                   prefix, calls, abandoned, cooled, visited, signal>>

\* ------------------------------------------------------- run_hk_scan
\* test.py 85-86
ScanStartChunk ==
    /\ prog = "scan" /\ pc = "loop" /\ InLoop
    /\ pc' = "fetch"
    /\ prefix' = results
    /\ calls' = 0
    /\ UNCHANGED <<inputs, fetches, results, chunk_index, success, retries, data, pos,
                   cancelled, pe, origin, abandoned, cooled, visited,
                   fundCalls, signal, workAfterSig>>

\* test.py 88-100, 141-143: the single attempt.  An exception goes to the
\* handler's sleep; an empty frame takes the continue of line 100, which
\* starts the next iteration of the for loop at once.
ScanDownload ==
    /\ prog = "scan" /\ pc = "fetch"
    /\ calls' = calls + 1
    /\ fetches' = fetches + 1
    /\ Work
    /\ \/ /\ pc' = "errSleep"
          /\ UNCHANGED <<data, pos, chunk_index, abandoned>>
       \/ \E d \in Frames(ticker_chunk) :
             /\ data' = d
             /\ IF IsEmpty(d)
                THEN /\ pc' = "loop"
                     /\ chunk_index' = chunk_index + 1
                     /\ abandoned' = abandoned \cup {chunk_index}
                     /\ UNCHANGED pos
                ELSE /\ pos' = 1
                     /\ pc' = "ticker"
                     /\ UNCHANGED <<chunk_index, abandoned>>
    /\ UNCHANGED <<inputs, results, success, retries, cancelled, pe, origin,
                   prefix, cooled, visited, fundCalls, signal>>

\* test.py 143: time.sleep(5) in the handler, then the cooldown test
ScanErrSleep ==
    /\ prog = "scan" /\ pc = "errSleep"
    /\ abandoned' = abandoned \cup {chunk_index}
    /\ NextChunk
    /\ UNCHANGED <<inputs, fetches, results, success, retries, data, pos, cancelled, pe,
                   origin, prefix, calls, cooled, visited, fundCalls, signal,
                   workAfterSig>>

\* test.py 102, 145-147: the for loop over the chunk is exhausted
ScanEndTickers ==
    /\ prog = "scan" /\ pc = "ticker" /\ pos > Len(ticker_chunk)
    /\ NextChunk
    /\ UNCHANGED <<inputs, fetches, results, success, retries, data, pos, cancelled, pe,
                   origin, prefix, calls, abandoned, cooled, visited,
                   fundCalls, signal, workAfterSig>>

\* test.py 124-136: the lookup, and the record when it passes
ScanFundamentals ==
    /\ prog = "scan" /\ pc = "fund"
    /\ Work
    /\ fundCalls' = Append(fundCalls, Idx(chunk_index, pos))
    /\ \E ans \in AnswersFor(ticker_chunk[pos]) :
          LET r == scan_check_fundamentals(ans, pe_min, pe_max) IN
          /\ pe' = [pe EXCEPT ![ticker_chunk[pos]] = ans]
          /\ IF r.valid
             THEN /\ results' = Append(results,
                        MatchRecord(prog, ticker_chunk[pos], data[ticker_chunk[pos]], r.pe))
                  /\ origin' = Append(origin, Idx(chunk_index, pos))
                  /\ pc' = "polite"
                  /\ UNCHANGED pos
             ELSE /\ pos' = pos + 1
                  /\ pc' = "ticker"
                  /\ UNCHANGED <<results, origin>>
    /\ UNCHANGED <<inputs, fetches, chunk_index, success, retries, data, cancelled,
                   prefix, calls, abandoned, cooled, visited, signal>>

\* test.py 136: time.sleep(1) after a confirmed match
ScanPoliteSleep ==
    /\ prog = "scan" /\ pc = "polite"
    /\ pos' = pos + 1
    /\ pc' = "ticker"
    /\ UNCHANGED <<inputs, fetches, results, chunk_index, success, retries, data,
                   cancelled, pe, origin, prefix, calls, abandoned, cooled,
                   visited, fundCalls, signal, workAfterSig>>

\* ------------------------------------------------- KeyboardInterrupt
\* Where a KeyboardInterrupt reaches the outer handler (main.py 175-176,
\* test.py 149-150): everywhere outside a bare except.  except Exception
\* (main.py 166, test.py 138 and 141) does not catch it.  The signal arrives
\* during a step: the batch print, a download, a sleep and, in run_hk_scan,
\* a ticker's computation.
OuterPoints(p) ==
    IF p = "batched"
    THEN {"loop", "while", "sleepRetry", "sleepBatch"}
    ELSE {"loop", "fetch", "errSleep", "sleepBatch", "ticker", "polite"}

Signal ==
    /\ signalled' = TRUE
    /\ sigBoundary' = IF signalled THEN sigBoundary ELSE Boundary
    /\ sigResults' = IF signalled THEN sigResults ELSE results

InterruptPropagates ==
    /\ pc \in OuterPoints(prog) /\ InLoop
    /\ Signal
    /\ cancelled' = TRUE
    /\ pc' = "done"
    /\ UNCHANGED <<inputs, fetches, results, chunk_index, success, retries, data, pos,
                   pe, origin, prefix, calls, abandoned, cooled, visited,
                   fundCalls, workAfterSig>>

\* main.py 101-123, 159-160: the signal arrives inside the per-ticker try,
\* whose bare except catches it and continues with the next ticker.
InterruptSwallowedTicker ==
    /\ prog = "batched" /\ pc = "ticker" /\ pos <= Len(ticker_chunk)
    /\ Signal
    /\ visited' = visited \cup {Idx(chunk_index, pos)}
    /\ pos' = pos + 1
    /\ UNCHANGED <<inputs, fetches, results, chunk_index, success, retries, data, pc,
                   cancelled, pe, origin, prefix, calls, abandoned, cooled,
                   fundCalls, workAfterSig>>

\* main.py 50-69, test.py 41-57: the signal arrives inside
\* check_fundamentals, whose bare except returns (False, None).
InterruptSwallowedFund ==
    /\ pc = "fund"
    /\ Signal
    /\ fundCalls' = Append(fundCalls, Idx(chunk_index, pos))
    /\ pos' = pos + 1
    /\ pc' = "ticker"
    /\ UNCHANGED <<inputs, fetches, results, chunk_index, success, retries, data,
                   cancelled, pe, origin, prefix, calls, abandoned, cooled,
                   visited, workAfterSig>>

Next ==
    \/ StartChunk
    \/ Return
    \/ Download
    \/ RetrySleep
    \/ EndWhile
    \/ BatchSleep
    \/ ProcessTicker
    \/ EndTickers
    \/ Fundamentals
    \/ ScanStartChunk
    \/ ScanDownload
    \/ ScanErrSleep
    \/ ScanEndTickers
    \/ ScanFundamentals
    \/ ScanPoliteSleep
    \/ InterruptPropagates
    \/ InterruptSwallowedTicker
    \/ InterruptSwallowedFund

Spec == Init /\ [][Next]_vars

TypeOK ==
    /\ pc \in {"loop", "while", "sleepRetry", "ticker", "fund", "sleepBatch",
               "fetch", "errSleep", "polite", "done", "raised"}
    /\ chunk_index \in 1..(Len(chunks) + 1)
    /\ retries \in 0..max_retries
    /\ Len(origin) = Len(results)

\* ------------------------------------------------------------ properties
\* what the properties read of the history
uncancelled == ~signalled
NewRecords == SubSeq(results, Len(prefix) + 1, Len(results))
OriginsIn(c) == {k \in 1..Len(origin) : ChunkOf(origin[k]) = c}
\* the chunk whose processing ended last, 0 while one is in progress
LastEnded ==
    IF pc = "sleepBatch" THEN chunk_index
    ELSE IF pc \in {"loop", "done"} THEN chunk_index - 1
    ELSE 0

\* The records a chunk yields when the provider returns frame d on the first
\* attempt: the per-ticker body applied to positions p..Len(chunk) in order.
RECURSIVE ImmediateRecords(_, _, _, _)
ImmediateRecords(chunk, d, answers, p) ==
    IF p > Len(chunk) THEN <<>>
    ELSE IF /\ TickerOutcome("batched", chunk, d, chunk[p]) = "match"
            /\ check_fundamentals(answers[chunk[p]]).valid
         THEN <<MatchRecord("batched", chunk[p], d[chunk[p]],
                            check_fundamentals(answers[chunk[p]]).pe)>>
              \o ImmediateRecords(chunk, d, answers, p + 1)
         ELSE ImmediateRecords(chunk, d, answers, p + 1)

\* C1: in screen_hk_stocks_batched a chunk is downloaded at most 2 times;
\* a chunk whose attempts all failed (raised or came back empty) is given up
\* after exactly 2 attempts with no record added, no exception leaves the
\* function, the run goes on to the next chunk and ends only with the
\* chunks exhausted, and a later chunk still yields exactly the records of
\* its own frame.
C1_AbandonedChunk ==
    (prog = "batched" /\ uncancelled) =>
        /\ calls <= RetryCeiling
        /\ pc # "raised"
        /\ \A c \in abandoned : OriginsIn(c) = {}
        /\ (LastEnded \in abandoned => calls = RetryCeiling /\ results = prefix)
        /\ (pc = "done" => ~InLoop)
        /\ (pc = "while" /\ success =>
                results = prefix \o ImmediateRecords(ticker_chunk, data, pe, 1))

\* C1 witness: the first chunk was given up and the second one has just
\* added a record.
C1_Witness ==
    /\ prog = "batched" /\ uncancelled
    /\ 1 \in abandoned
    /\ chunk_index = 2 /\ pc = "while" /\ success
    /\ Len(results) > Len(prefix)

\* C2: in screen_hk_stocks_batched a chunk whose first k < 2 attempts fail
\* and whose next attempt returns a non-empty frame adds exactly the records
\* that frame yields on a first attempt, in the same order, after the same
\* earlier records: failed attempts add nothing, a chunk is never given up
\* before 2 failed attempts, and the records of a successful attempt do not
\* depend on the number of failures before it.
C2_RetryThenSuccess ==
    (prog = "batched" /\ uncancelled) =>
        /\ (pc \in {"while", "sleepRetry"} /\ ~success => results = prefix)
        /\ (LastEnded \in abandoned => calls = RetryCeiling)
        /\ (pc = "while" /\ success =>
                /\ retries < RetryCeiling
                /\ calls = retries + 1
                /\ results = prefix \o ImmediateRecords(ticker_chunk, data, pe, 1))

\* C2 witness: a chunk failed once, then succeeded and added a record.
C2_Witness ==
    /\ prog = "batched" /\ uncancelled
    /\ pc = "while" /\ success /\ retries = 1
    /\ Len(results) > Len(prefix)

CeilDiv(n, b) == (n + b - 1) \div b

RECURSIVE Flatten(_, _)
Flatten(cs, k) == IF k > Len(cs) THEN <<>> ELSE cs[k] \o Flatten(cs, k + 1)

\* C8: the partition has ceil(n/b) chunks, every chunk but the last has b
\* tickers, the last has between 1 and b, and the chunks concatenated in
\* order are the input list.
C8_ChunkPartition ==
    /\ Len(chunks) = CeilDiv(Len(tickers), batch_size)
    /\ \A k \in 1..(Len(chunks) - 1) : Len(chunks[k]) = batch_size
    /\ Len(chunks[Len(chunks)]) \in 1..batch_size
    /\ Flatten(chunks, 1) = tickers

\* C8 witness: a list with duplicates whose last chunk is shorter
C8_Witness ==
    /\ Len(tickers) = 3 /\ batch_size = 2 /\ tickers[1] = tickers[3]
    /\ Len(chunks) = 2 /\ Len(chunks[2]) = 1

\* C3 (as claimed): once a KeyboardInterrupt has arrived, what
\* screen_hk_stocks_batched returns keeps the records it had at the signal
\* and holds records of chunks fully processed before the signal only.
C3_CancelKeepsWholeChunksOnly ==
    (prog = "batched" /\ signalled /\ pc = "done") =>
        /\ Len(sigResults) <= Len(results)
        /\ SubSeq(results, 1, Len(sigResults)) = sigResults
        /\ \A k \in 1..Len(origin) : ChunkOf(origin[k]) < sigBoundary

C5_FailuresAreContained ==
    /\ pc # "raised"
    /\ (pc = "done" => cancelled \/ ~InLoop)
    /\ \A c \in abandoned : OriginsIn(c) = {}
    /\ \A k \in (Len(prefix) + 1)..Len(results) :
          /\ data[tickers[origin[k]]].wellformed
          /\ pe[tickers[origin[k]]].kind # "raise"
    /\ (pc = "done" /\ uncancelled =>
          /\ chunk_index = Len(chunks) + 1
          /\ visited = {i \in 1..Len(tickers) : ChunkOf(i) \notin abandoned})

\* C5 witness: the first ticker's computation raised on a malformed frame,
\* the second ticker of the chunk still added its record, the download of
\* the next chunk failed, and the run ended with the chunks exhausted.
C5_Witness ==
    /\ uncancelled /\ pc = "done"
    /\ Len(tickers) = 3 /\ batch_size = 2
    /\ abandoned = {2}
    /\ visited = {1, 2}
    /\ origin = <<2>>
    /\ tickers[1] \in DOMAIN data
    /\ ~data[tickers[1]].wellformed /\ data[tickers[1]].bars >= MinBars

\* C6: every record of screen_hk_stocks_batched is for a ticker that has
\* columns in the non-empty frame of its chunk (a chunk of one ticker takes
\* the whole frame) and at least 5 valid bars there; absent and short
\* tickers add nothing and no exception leaves the function.
C6_RecordsHaveWindows ==
    prog = "batched" =>
        /\ pc # "raised"
        /\ Len(prefix) <= Len(results)
        /\ \A k \in (Len(prefix) + 1)..Len(results) :
              /\ ChunkOf(origin[k]) \in {chunk_index - 1, chunk_index}
              /\ results[k].Ticker = tickers[origin[k]]
              /\ ~IsEmpty(data)
              /\ results[k].Ticker \in DOMAIN data
              /\ data[results[k].Ticker].bars >= 5

\* C6 witness: in a chunk of two, one ticker is absent from the frame or
\* short and adds nothing, the other adds its record.
C6_Witness ==
    /\ prog = "batched" /\ pc = "while" /\ success /\ uncancelled
    /\ Len(ticker_chunk) = 2
    /\ ticker_chunk[1] \in DOMAIN data /\ data[ticker_chunk[1]].bars < 5
    /\ origin # <<>> /\ origin[Len(origin)] = Idx(chunk_index, 2)

\* C6 witness for the chunk of one ticker
C6_SingleTickerCase ==
    /\ prog = "batched" /\ pc = "while" /\ success
    /\ Len(ticker_chunk) = 1 /\ Len(results) = Len(prefix) + 1

InRange(f) == \A i \in DOMAIN f : \A j \in DOMAIN f : f[i] = f[j] => i = j

\* C7: in screen_hk_stocks_batched check_fundamentals is called only for a
\* ticker that passed the primary filter, at most once per occurrence; a
\* record exists only for a ticker that passed the primary filter and whose
\* ratio is a value in 15..50; and a lookup that raises, has no ratio or one
\* outside 15..50 adds no record while the loop goes on with the next
\* ticker.
C7_BothFilters ==
    prog = "batched" =>
        /\ InRange(fundCalls)
        /\ (pc = "fund" =>
              TickerOutcome(prog, ticker_chunk, data, ticker_chunk[pos]) = "match")
        /\ \A k \in 1..Len(origin) :
              /\ \E j \in 1..Len(fundCalls) : fundCalls[j] = origin[k]
              /\ pe[tickers[origin[k]]].kind = "value"
              /\ pe[tickers[origin[k]]].pe >= 15
              /\ pe[tickers[origin[k]]].pe <= 50
        /\ \A k \in (Len(prefix) + 1)..Len(results) :
              /\ data[tickers[origin[k]]].high > 10
              /\ ChangeAtLeast(data[tickers[origin[k]]], 15)
              /\ ChangeAtMost(data[tickers[origin[k]]], 25)
        /\ \A j \in 1..Len(fundCalls) :
              (ChunkOf(fundCalls[j]) = chunk_index /\ pc \in {"ticker", "while"}) =>
                  /\ PrimaryFilter(data[tickers[fundCalls[j]]])
                  /\ (~(/\ pe[tickers[fundCalls[j]]].kind = "value"
                        /\ pe[tickers[fundCalls[j]]].pe >= 15
                        /\ pe[tickers[fundCalls[j]]].pe <= 50)
                      => \A k \in 1..Len(origin) : origin[k] # fundCalls[j])

\* C7 witness: the first ticker's ratio is 51 and adds nothing, the second
\* ticker is then processed and adds its record.
C7_Witness ==
    /\ prog = "batched" /\ uncancelled /\ pc = "while" /\ success
    /\ Len(ticker_chunk) = 2
    /\ pe[ticker_chunk[1]].kind = "value" /\ pe[ticker_chunk[1]].pe = 51
    /\ fundCalls = <<Idx(chunk_index, 1), Idx(chunk_index, 2)>>
    /\ origin = <<Idx(chunk_index, 2)>>

\* the window of position p of the chunk passes every test of the claim
Qualifies(chunk, d, answers, p) ==
    /\ chunk[p] \in DOMAIN d
    /\ d[chunk[p]].bars >= 5
    /\ d[chunk[p]].wellformed
    /\ d[chunk[p]].high > 10
    /\ 15 * d[chunk[p]].first <= Abs(d[chunk[p]].last - d[chunk[p]].first) * 100
    /\ Abs(d[chunk[p]].last - d[chunk[p]].first) * 100 <= 25 * d[chunk[p]].first
    /\ answers[chunk[p]].kind = "value"
    /\ answers[chunk[p]].pe >= 15
    /\ answers[chunk[p]].pe <= 50

RecordsOf(i) == {k \in 1..Len(origin) : origin[k] = i}

C10_CooldownBetweenChunks ==
    /\ Len(chunks) \notin cooled
    /\ \A c \in 1..(Len(chunks) - 1) : c < chunk_index => c \in cooled

\* The same for screen_hk_stocks_batched alone.
CooldownBatched == prog = "batched" => C10_CooldownBetweenChunks

\* C11 (as claimed): run_hk_scan gives a chunk up only after 2 downloads
\* have failed (raised or come back empty), so a chunk whose first download
\* fails is downloaded again.
C11_ScanRetriesChunk ==
    (prog = "scan" /\ uncancelled) =>
        (LastEnded \in abandoned => calls = RetryCeiling)

\* ------------------------------------------ the primary filter alone
\* screen_hk_stocks_batched on short lists, the provider returning the
\* windows of FilterWindows; no KeyboardInterrupt.
InitFilter == Init /\ prog = "batched" /\ Len(tickers) <= FilterTickers

DownloadFilter == DownloadFrom(FilterFrames(ticker_chunk))

NextFilter ==
    \/ StartChunk
    \/ Return
    \/ DownloadFilter
    \/ RetrySleep
    \/ EndWhile
    \/ BatchSleep
    \/ ProcessTicker
    \/ EndTickers
    \/ Fundamentals

SpecFilter == InitFilter /\ [][NextFilter]_vars

\* the claim's filter: maximum High above 10 and a change of 15 to 25
\* percent either way, with pct_change = (last - first) / first * 100
ClaimPasses(w) ==
    /\ w.high > 10
    /\ w.first > 0
    /\ 15 * w.first <= Abs(w.last - w.first) * 100
    /\ Abs(w.last - w.first) * 100 <= 25 * w.first

Called(i) == \E j \in 1..Len(fundCalls) : fundCalls[j] = i

\* C12: in screen_hk_stocks_batched a ticker with a window of at least 5
\* bars reaches check_fundamentals if and only if its maximum High is above
\* 10 and 15 <= |pct_change| <= 25, rises and falls alike, and only such a
\* ticker has a record; first close 100 with last close 115 passes, with
\* last close 100 or 126 it does not.
C12_PrimaryFilter ==
    /\ (pc = "fund" => ClaimPasses(data[ticker_chunk[pos]]))
    /\ \A k \in (Len(prefix) + 1)..Len(results) :
          ClaimPasses(data[tickers[origin[k]]])
    /\ (InLoop /\ success /\ pc \in {"ticker", "fund", "while"} =>
          \A p \in 1..Len(ticker_chunk) :
             (p < pos /\ ticker_chunk[p] \in DOMAIN data) =>
                LET w == data[ticker_chunk[p]] IN
                /\ Called(Idx(chunk_index, p)) <=>
                      (w.bars >= 5 /\ w.wellformed /\ ClaimPasses(w))
                /\ (w.bars >= 5 /\ w.first = 100 /\ w.last = 115 /\ w.high > 10
                      => Called(Idx(chunk_index, p)))
                /\ (w.first = 100 /\ w.last \in {100, 126}
                      => ~Called(Idx(chunk_index, p))))

\* C12 witness: a fall of 15 percent reached the lookup and has its record,
\* a rise of 26 percent in the same chunk did not reach it.
C12_Witness ==
    /\ pc = "while" /\ success
    /\ Len(ticker_chunk) = 2
    /\ DOMAIN data = {ticker_chunk[1], ticker_chunk[2]}
    /\ data[ticker_chunk[1]] = Bar(100, 85, 130)
    /\ data[ticker_chunk[2]] = Bar(100, 126, 130)
    /\ fundCalls = <<Idx(chunk_index, 1)>>
    /\ origin = <<Idx(chunk_index, 1)>>

\* -------------------------------------------- runs that are not cancelled
\* screen_hk_stocks_batched with a provider whose every call returns and no
\* KeyboardInterrupt.  The function is sequential code: whenever a step is
\* possible one is taken.
InitRun == Init /\ prog = "batched"

NextRun ==
    \/ StartChunk
    \/ Return
    \/ Download
    \/ RetrySleep
    \/ EndWhile
    \/ BatchSleep
    \/ ProcessTicker
    \/ EndTickers
    \/ Fundamentals

SpecRun == InitRun /\ [][NextRun]_vars /\ WF_vars(NextRun)

\* the chunks whose while loop has been entered
Started == IF chunk_index <= Len(chunks) /\ pc # "loop" THEN chunk_index ELSE chunk_index - 1

FetchCountOK ==
    /\ fetches <= RetryCeiling * Started
    /\ fetches >= Started - (IF pc = "while" /\ calls = 0 THEN 1 ELSE 0)
    /\ calls = retries + (IF success THEN 1 ELSE 0)
    /\ (pc = "done" =>
          /\ fetches >= Len(chunks)
          /\ fetches <= RetryCeiling * Len(chunks))

\* C13: every run of screen_hk_stocks_batched whose provider calls all
\* return ends; it has made at least one and at most 2 downloads per chunk,
\* so between len(chunks) and 2 * len(chunks) in all; and every download of
\* a chunk after its first follows a failed or empty attempt, none follows
\* a non-empty frame.
C13_TerminatesWithinCeiling == []FetchCountOK /\ <>(pc = "done")

\* C13 witness: a run of two chunks has ended after 3 downloads, one chunk
\* having been downloaded twice, with a record.
C13_Witness ==
    /\ pc = "done" /\ Len(chunks) = 2 /\ fetches = 3 /\ Len(results) >= 1

====
